---- MODULE Spec2Model ----
(***************************************************************************)
(* A model of the .DS_Store decoder of src/main.go: the header and the     *)
(* allocator, the recursive B-tree walk, the typed-value decoder, the      *)
(* record store and the report that main prints.                           *)
(*                                                                         *)
(* Numbers.  The decoder works on uint32 words and on Go ints, whose       *)
(* values do not fit the model checker's integers.  A number is therefore  *)
(* a pair [hi, lo] that stands for hi * 65536 + lo, with lo in 0..65535.   *)
(* A uint32 has hi in 0..65535; a Go int has any hi (negative included).   *)
(* Go's int is 32 or 64 bits wide depending on the build target, so the    *)
(* width is a variable of the model (intBits).                             *)
(***************************************************************************)
EXTENDS Integers, Sequences, FiniteSets, TLC

VARIABLES
    content,    \* DSStore.content: a Go slice [bytes, len, cap]
    intBits,    \* width of Go's int on the build target: 32 or 64
    d,          \* the remaining fields of the DSStore struct
    stack,      \* the call stack of parseTreeNode: one frame per active call
    pc,         \* where the process is
    panicVal,   \* the value of the panic in flight or last recovered
    parseErr,   \* the error Parse returned to main
    stderr,     \* the diagnostic stream: warnings and errors, in order
    stdout,     \* the report: record names and field lines, in order
    exitCode,   \* the exit status of the process, -1 while it runs
    reportIdx,  \* main's loop index over d.records
    walk,       \* history: the entries parseTreeNode has yielded so far
    lastTag,    \* history: the type tag parseData read last
    file        \* the description the input file was generated from

vars == <<content, intBits, d, stack, pc, panicVal, parseErr, stderr, stdout,
          exitCode, reportIdx, walk, lastTag, file>>

----------------------------------------------------------------------------
(* Bounds of the model.                                                    *)

\* Frames parseTreeNode may stack before the Go runtime ends the process
\* with a stack overflow (the runtime's limit is 1 GB of stack).
MaxDepth == 5
\* Entries of the root node in the generated trees.
MaxEntries == 2
\* Spare capacity of the content slice beyond its length.
MaxSlack == 1
\* Bytes cut from the end of a generated file.
MaxCut == 5

----------------------------------------------------------------------------
(* Arithmetic on [hi, lo] pairs.                                           *)

Norm(h, l) == [hi |-> h + (l \div 65536), lo |-> l % 65536]
Small(n) == Norm(0, n)
Lt(a, b) == a.hi < b.hi \/ (a.hi = b.hi /\ a.lo < b.lo)

\* A value as a Go int of the given width (two's complement wrap-around).
WrapInt(a, bits) ==
    IF bits = 32 THEN [hi |-> ((a.hi + 32768) % 65536) - 32768, lo |-> a.lo]
    ELSE a
\* A value as a uint32.
WrapU32(a) == [hi |-> a.hi % 65536, lo |-> a.lo]

\* int(x) for a uint32 x.
IntOfU32(w, bits) == WrapInt(w, bits)
\* a + b on Go ints.
IntAdd(a, b, bits) == WrapInt(Norm(a.hi + b.hi, a.lo + b.lo), bits)
\* a + b on uint32.
U32Add(a, b) == WrapU32(Norm(a.hi + b.hi, a.lo + b.lo))
\* w >> 5 and w << 5 on uint32.
Shr5(w) == [hi |-> w.hi \div 32, lo |-> (w.hi % 32) * 2048 + (w.lo \div 32)]
Shl5(w) == [hi |-> (w.hi * 32 + (w.lo \div 2048)) % 65536,
            lo |-> (w.lo % 2048) * 32]

\* binary.BigEndian.Uint32 and Uint16.
BE32(b) == [hi |-> b[1] * 256 + b[2], lo |-> b[3] * 256 + b[4]]
BE16(b) == b[1] * 256 + b[2]

----------------------------------------------------------------------------
(* Four-character tags, as byte strings.                                   *)

DSDB == <<68, 83, 68, 66>>
TagBool == <<98, 111, 111, 108>>
TagShor == <<115, 104, 111, 114>>
TagLong == <<108, 111, 110, 103>>
TagComp == <<99, 111, 109, 112>>
TagDutc == <<100, 117, 116, 99>>
TagType == <<116, 121, 112, 101>>
TagBlob == <<98, 108, 111, 98>>
TagUstr == <<117, 115, 116, 114>>
KnownTags == {TagBool, TagShor, TagLong, TagComp, TagDutc, TagType, TagBlob,
              TagUstr}

FieldBKGD == <<66, 75, 71, 68>>
FieldIloc == <<73, 108, 111, 99>>
FieldDilc == <<100, 105, 108, 99>>
FieldFwi0 == <<102, 119, 105, 48>>
FieldIcvo == <<105, 99, 118, 111>>
SubIcv4 == <<105, 99, 118, 52>>
SubDefB == <<68, 101, 102, 66>>
SubClrB == <<67, 108, 114, 66>>
SubPctB == <<80, 99, 116, 66>>

----------------------------------------------------------------------------
(* The read helpers of DSStore.  Each returns ok = FALSE where the Go      *)
(* runtime panics.  A slice expression content[lo:hi] is checked against   *)
(* the capacity of the slice, an index expression content[i] against its   *)
(* length; the bytes between length and capacity are zero.                 *)

ByteAt(c, i) == IF i \in DOMAIN c.bytes THEN c.bytes[i] ELSE 0

\* content[lo:hi] is legal: 0 <= lo <= hi <= cap(content).
SliceOK(c, lo, hi) ==
    lo.hi = 0 /\ hi.hi = 0 /\ lo.lo <= hi.lo /\ hi.lo <= c.cap

nextByte(c, cursor) ==
    IF cursor.hi = 0 /\ cursor.lo < c.len
    THEN [ok |-> TRUE, val |-> ByteAt(c, cursor.lo),
          cursor |-> Small(cursor.lo + 1)]
    ELSE [ok |-> FALSE, val |-> 0, cursor |-> cursor]

nextBytes(c, bits, cursor, n) ==
    LET high == IntAdd(cursor, n, bits) IN
    IF SliceOK(c, cursor, high)
    THEN [ok |-> TRUE,
          b |-> [k \in 1..(high.lo - cursor.lo) |-> ByteAt(c, cursor.lo + k - 1)],
          off |-> cursor.lo,
          cursor |-> high]
    ELSE [ok |-> FALSE, b |-> <<>>, off |-> 0, cursor |-> cursor]

nextUint32(c, bits, cursor) ==
    LET r == nextBytes(c, bits, cursor, Small(4)) IN
    [ok |-> r.ok, val |-> IF r.ok THEN BE32(r.b) ELSE Small(0),
     cursor |-> r.cursor]

\* k consecutive nextUint32 calls: the words read before the first failure.
RECURSIVE ReadWords(_, _, _, _)
ReadWords(c, bits, cursor, k) ==
    IF k = 0 THEN [ok |-> TRUE, w |-> <<>>, cursor |-> cursor]
    ELSE LET r == nextUint32(c, bits, cursor) IN
         IF ~r.ok THEN [ok |-> FALSE, w |-> <<>>, cursor |-> cursor]
         ELSE LET rest == ReadWords(c, bits, r.cursor, k - 1) IN
              [ok |-> rest.ok, w |-> <<r.val>> \o rest.w, cursor |-> rest.cursor]

\* The iterations of "for i := 0; i < int(n); i++" whose body reads from the
\* buffer: none when int(n) is negative, and never more than cap + 1, the
\* read that is certain to fail.
LoopCount(c, bits, n) ==
    LET v == IntOfU32(n, bits) IN
    IF v.hi < 0 THEN 0
    ELSE IF v.hi > 0 \/ v.lo > c.cap THEN c.cap + 1
    ELSE v.lo

OutOfRange == "runtime error: out of range"
NoDSDB == "Key 'DSDB' not found in table of contents"

----------------------------------------------------------------------------
(* The state of a decode, as the operators below pass it on:               *)
(*   [d, stack, pc, panicVal, stderr, walk, lastTag]                       *)
(* A panic leaves pc = "recover": the deferred function of Parse runs      *)
(* next.  log.Fatalf leaves pc = "exit", a stack overflow pc = "crash".    *)

Warn(msg) == <<"Warning: " \o msg>>

Raise(p, d1, warns, val) ==
    [p EXCEPT !.d = d1, !.stderr = @ \o warns, !.pc = "recover",
              !.panicVal = val]

MapPut(f, k, v) == [x \in DOMAIN f \cup {k} |-> IF x = k THEN v ELSE f[x]]

Magic == [hi |-> 17013, lo |-> 25649]   \* 0x42756431, "Bud1"

parseHeaderStrict(c, bits, p) ==
    LET r == ReadWords(c, bits, p.d.cursor, 5) IN
    IF r.ok /\ r.w[2] = Magic
    THEN [p EXCEPT !.d = [@ EXCEPT !.cursor = r.cursor,
                                   !.allocatorOffset = U32Add(Small(4), r.w[3]),
                                   !.allocatorLength = r.w[4]],
                   !.pc = "parseAllocator"]
    ELSE Raise(p, p.d, <<>>, "bad magic")

parseHeader(c, bits, p) ==
    LET r == ReadWords(c, bits, p.d.cursor, 5)
        n == Len(r.w)
        allocOff == U32Add(Small(4), r.w[3])
        warns ==
            (IF n >= 1 /\ r.w[1] # Small(1)
             THEN Warn("Alignment int not 0x00000001") ELSE <<>>)
         \o (IF n >= 2 /\ r.w[2] # Magic
             THEN Warn("Magic bytes not 0x42756431 (Bud1)") ELSE <<>>)
         \o (IF n >= 5 /\ U32Add(Small(4), r.w[5]) # allocOff
             THEN Warn("Allocator offsets unequal") ELSE <<>>)
        d1 == [p.d EXCEPT !.cursor = r.cursor,
                          !.allocatorOffset = IF n >= 3 THEN allocOff ELSE @,
                          !.allocatorLength = IF n >= 4 THEN r.w[4] ELSE @]
    IN  IF r.ok
        THEN [p EXCEPT !.d = d1, !.stderr = @ \o warns, !.pc = "parseAllocator"]
        ELSE Raise(p, d1, warns, OutOfRange)

\* The directory loop of parseAllocator: k entries of (1-byte length, name,
\* uint32 block id).
RECURSIVE ReadKeys(_, _, _, _, _, _)
ReadKeys(c, bits, cursor, k, dir, warns) ==
    IF k = 0 THEN [ok |-> TRUE, dir |-> dir, warns |-> warns, cursor |-> cursor]
    ELSE
    LET kl == nextByte(c, cursor)
        kb == nextBytes(c, bits, kl.cursor, Small(kl.val))
        kv == nextUint32(c, bits, kb.cursor)
        failAt == IF ~kl.ok THEN cursor ELSE IF ~kb.ok THEN kl.cursor
                  ELSE kb.cursor
    IN  IF ~(kl.ok /\ kb.ok /\ kv.ok)
        THEN [ok |-> FALSE, dir |-> dir, warns |-> warns, cursor |-> failAt]
        ELSE ReadKeys(c, bits, kv.cursor, k - 1, MapPut(dir, kb.b, kv.val),
                      warns \o (IF kb.b # DSDB
                                THEN Warn("Directory contains non-'DSDB' key")
                                ELSE <<>>))

\* The free lists of parseAllocator: k groups of (count, that many ids).
\* make([]uint32, n) panics when n does not fit an int.
RECURSIVE ReadFree(_, _, _, _)
ReadFree(c, bits, cursor, k) ==
    IF k = 0 THEN [ok |-> TRUE, fl |-> <<>>, cursor |-> cursor]
    ELSE
    LET n == nextUint32(c, bits, cursor)
        l == ReadWords(c, bits, n.cursor, LoopCount(c, bits, n.val))
    IN  IF ~n.ok THEN [ok |-> FALSE, fl |-> <<>>, cursor |-> cursor]
        ELSE IF IntOfU32(n.val, bits).hi < 0 \/ ~l.ok
        THEN [ok |-> FALSE, fl |-> <<>>, cursor |-> l.cursor]
        ELSE LET rest == ReadFree(c, bits, l.cursor, k - 1) IN
             [ok |-> rest.ok, fl |-> <<l.w>> \o rest.fl, cursor |-> rest.cursor]

\* A frame of parseTreeNode as the call creates it.
Frame(id, master) ==
    [nodeID |-> id, master |-> master, phase |-> "enter",
     offsetAndSize |-> Small(0), start |-> Small(0), nextID |-> Small(0),
     numRecords |-> Small(0), i |-> 0, currentCursor |-> Small(0)]

\* The directory lookup that falls back on the zero value of the map.
lookupDSDBZero(dir) ==
    [ok |-> TRUE, val |-> IF DSDB \in DOMAIN dir THEN dir[DSDB] ELSE Small(0)]

\* dsdbVal, ok := d.directory["DSDB"]
lookupDSDB(dir) ==
    [ok |-> DSDB \in DOMAIN dir,
     val |-> IF DSDB \in DOMAIN dir THEN dir[DSDB] ELSE Small(0)]

\* parseAllocator, and Parse's call of parseTreeNode(d.masterID, true) that
\* follows it.  The free list of size class 2^i is freelist[i + 1].
parseAllocator(c, bits, p) ==
    LET base == IntOfU32(p.d.allocatorOffset, bits)
        h == ReadWords(c, bits, base, 2)
        w2 == IF Len(h.w) = 2 /\ h.w[2] # Small(0)
              THEN Warn("Second int of allocator not 0x00000000") ELSE <<>>
        numOffsets == h.w[1]
        offs == ReadWords(c, bits, h.cursor, LoopCount(c, bits, numOffsets))
        dirAt == IntAdd(base, Small(1032), bits)
        nk == nextUint32(c, bits, dirAt)
        keys == ReadKeys(c, bits, nk.cursor, LoopCount(c, bits, nk.val),
                         p.d.directory, <<>>)
        fl == ReadFree(c, bits, keys.cursor, 32)
        d1 == [p.d EXCEPT !.cursor = h.cursor]
        d2 == [d1 EXCEPT !.cursor = offs.cursor, !.offsets = offs.w]
        d3 == [d2 EXCEPT !.cursor = IF nk.ok THEN keys.cursor ELSE dirAt,
                         !.directory = IF nk.ok THEN keys.dir ELSE @]
        dsdb == lookupDSDB(keys.dir)
        d4 == [d3 EXCEPT !.masterID = dsdb.val, !.cursor = fl.cursor]
        d5 == [d4 EXCEPT !.freelist = fl.fl]
    IN  IF ~h.ok THEN Raise(p, d1, w2, OutOfRange)
        ELSE IF IntOfU32(numOffsets, bits).hi < 0 THEN Raise(p, d1, w2, OutOfRange)
        ELSE IF ~offs.ok THEN Raise(p, d2, w2, OutOfRange)
        ELSE IF ~nk.ok \/ ~keys.ok
             THEN Raise(p, d3, w2 \o (IF nk.ok THEN keys.warns ELSE <<>>),
                        OutOfRange)
        ELSE IF ~dsdb.ok
             THEN Raise(p, d3, w2 \o keys.warns, NoDSDB)
        ELSE IF ~fl.ok THEN Raise(p, d4, w2 \o keys.warns, OutOfRange)
        ELSE [p EXCEPT !.d = d5, !.stderr = @ \o w2 \o keys.warns,
                       !.pc = "parseTreeNode",
                       !.stack = <<Frame(d5.masterID, TRUE)>>]

----------------------------------------------------------------------------
(* Values, strings and the record store.                                   *)
(* A decoded value is [kind, v]:                                           *)
(*   "bool"  : v a boolean                                                 *)
(*   "int"   : v a Go int, as a pair                                       *)
(*   "int64" : v the eight bytes of the two's complement int64             *)
(*   "str"   : v a string: the four raw bytes of a type tag, or the code   *)
(*             points of a decoded UTF-16 text                             *)
(*   "bytes" : v = [off, len], the slice content[off : off+len], whose     *)
(*             capacity reaches to the capacity of content                 *)

\* unicode/utf16.Decode: a surrogate pair is one code point, a lone
\* surrogate is U+FFFD.
RECURSIVE utf16Decode(_)
utf16Decode(u) ==
    IF u = <<>> THEN <<>>
    ELSE IF Len(u) >= 2 /\ u[1] \in 55296..56319 /\ u[2] \in 56320..57343
    THEN <<(u[1] - 55296) * 1024 + (u[2] - 56320) + 65536>>
         \o utf16Decode(SubSeq(u, 3, Len(u)))
    ELSE IF u[1] \in 55296..57343
    THEN <<65533>> \o utf16Decode(Tail(u))
    ELSE <<u[1]>> \o utf16Decode(Tail(u))

utf16ToString(b) ==
    IF Len(b) % 2 # 0 THEN <<>>
    ELSE utf16Decode([k \in 1..(Len(b) \div 2) |-> BE16(<<b[2 * k - 1], b[2 * k]>>)])

\* The default case of parseData made lenient: nil is returned and the
\* walk goes on.
parseDataDefaultNil(t) ==
    [ok |-> TRUE, fatal |-> FALSE, tag |-> t.b,
     val |-> [kind |-> "nil", v |-> FALSE], cursor |-> t.cursor]

\* The default case of parseData: log.Fatalf ends the process.
parseDataDefault(t) ==
    [ok |-> TRUE, fatal |-> TRUE, tag |-> t.b,
     val |-> [kind |-> "nil", v |-> FALSE], cursor |-> t.cursor]

parseData(c, bits, cursor) ==
    LET t == nextBytes(c, bits, cursor, Small(4))
        Res(ok, val, cur) ==
            [ok |-> ok, fatal |-> FALSE, tag |-> t.b, val |-> val, cursor |-> cur]
        nil == [kind |-> "nil", v |-> FALSE]
    IN
    IF ~t.ok THEN [ok |-> FALSE, fatal |-> FALSE, tag |-> <<>>, val |-> nil,
                   cursor |-> cursor]
    ELSE IF t.b = TagBool THEN
        LET b == nextByte(c, t.cursor) IN
        Res(b.ok, [kind |-> "bool", v |-> (b.val % 2) # 0], b.cursor)
    ELSE IF t.b \in {TagShor, TagLong} THEN
        LET w == nextUint32(c, bits, t.cursor) IN
        Res(w.ok, [kind |-> "int", v |-> IntOfU32(w.val, bits)], w.cursor)
    ELSE IF t.b \in {TagComp, TagDutc} THEN
        LET w == nextBytes(c, bits, t.cursor, Small(8)) IN
        Res(w.ok, [kind |-> "int64", v |-> w.b], w.cursor)
    ELSE IF t.b = TagType THEN
        LET w == nextBytes(c, bits, t.cursor, Small(4)) IN
        Res(w.ok, [kind |-> "str", v |-> w.b], w.cursor)
    ELSE IF t.b = TagBlob THEN
        LET n == nextUint32(c, bits, t.cursor)
            w == nextBytes(c, bits, n.cursor, IntOfU32(n.val, bits))
        IN  IF ~n.ok THEN Res(FALSE, nil, t.cursor)
            ELSE Res(w.ok, [kind |-> "bytes",
                            v |-> [off |-> w.off, len |-> Len(w.b)]], w.cursor)
    ELSE IF t.b = TagUstr THEN
        LET n == nextUint32(c, bits, t.cursor)
            w == nextBytes(c, bits, n.cursor,
                           IntOfU32(U32Add(n.val, n.val), bits))
        IN  IF ~n.ok THEN Res(FALSE, nil, t.cursor)
            ELSE Res(w.ok, [kind |-> "str", v |-> utf16ToString(w.b)], w.cursor)
    ELSE parseDataDefault(t)

\* Record.update with a one-field map.
update(rec, field, dt) == [rec EXCEPT !.fields = MapPut(@, field, dt)]

NewRecord(name) == [name |-> name, fields |-> <<>>]

\* The merge that appends a record for every entry.
mergeAlwaysAppend(records, name, field, dt) ==
    Append(records, update(NewRecord(name), field, dt))

\* "Update or create record" of parseTreeNode: the first record of that
\* name is updated, else a new record is appended.
merge(records, name, field, dt) ==
    LET hits == {k \in 1..Len(records) : records[k].name = name} IN
    IF hits # {}
    THEN LET k == CHOOSE x \in hits : \A y \in hits : x <= y IN
         [records EXCEPT ![k] = update(@, field, dt)]
    ELSE Append(records, update(NewRecord(name), field, dt))

----------------------------------------------------------------------------
(* parseTreeNode.  Each active call is a frame                             *)
(*   [nodeID, master, phase, offsetAndSize, start, nextID, numRecords, i,  *)
(*    currentCursor]                                                       *)
(* of its arguments and locals; start keeps the cursor as line 598 set it. *)
(* The phase says where the call stands:                                   *)
(*   "enter" : called, body not yet run                                    *)
(*   "loop"  : at the head of the entry loop, with index i                 *)
(*   "child" : waiting for parseTreeNode(childID) to return                *)
(*   "tail"  : waiting for its last call (the root of a master, the next   *)
(*             link of a node) to return                                   *)

Top(p) == p.stack[Len(p.stack)]
SetTop(p, f) == [p.stack EXCEPT ![Len(p.stack)] = f]

\* A call of parseTreeNode: a new frame, or the end of the process when the
\* goroutine's stack is exhausted.
Call(p, stk, id) ==
    IF Len(stk) >= MaxDepth
    THEN [p EXCEPT !.stack = stk, !.pc = "crash", !.panicVal = "stack overflow",
                   !.stderr = Append(@, "fatal error: stack overflow")]
    ELSE [p EXCEPT !.stack = Append(stk, Frame(id, FALSE))]

\* The return that leaves the cursor where the callee stopped.
ReturnNoRestore(p) ==
    LET stk == SubSeq(p.stack, 1, Len(p.stack) - 1) IN
    [p EXCEPT !.stack = stk, !.pc = IF stk = <<>> THEN "main" ELSE @]

\* A return of parseTreeNode; the return of the outermost call is the
\* "return nil" of Parse.  A caller that waits for a child walk goes on
\* with "d.cursor = currentCursor".
Return(p) ==
    LET stk == SubSeq(p.stack, 1, Len(p.stack) - 1)
        restore == stk # <<>> /\ stk[Len(stk)].phase = "child"
    IN  [p EXCEPT !.stack = stk, !.pc = IF stk = <<>> THEN "main" ELSE @,
                  !.d = IF restore
                        THEN [@ EXCEPT !.cursor = stk[Len(stk)].currentCursor]
                        ELSE @]

\* d.cursor = 0x4 + int((offsetAndSize>>5)<<5)
blockCursor(w, bits) == IntAdd(Small(4), IntOfU32(Shl5(Shr5(w)), bits), bits)

\* The first lines of parseTreeNode: the block is looked up and the cursor
\* set; a master reads its five words and calls the root, a node reads its
\* next link and its entry count.
enterNode(c, bits, p) ==
    LET f0 == Top(p)
        known == f0.nodeID.hi = 0 /\ f0.nodeID.lo < Len(p.d.offsets)
        w == p.d.offsets[f0.nodeID.lo + 1]
        at == blockCursor(w, bits)
        f == [f0 EXCEPT !.offsetAndSize = w, !.start = at]
        p1 == [p EXCEPT !.stack = SetTop(p, f)]
        m == ReadWords(c, bits, at, 5)
        n == Len(m.w)
        dm == [p.d EXCEPT !.cursor = m.cursor,
                          !.rootID = IF n >= 1 THEN m.w[1] ELSE @,
                          !.treeHeight = IF n >= 2 THEN m.w[2] ELSE @,
                          !.numRecords = IF n >= 3 THEN m.w[3] ELSE @,
                          !.numNodes = IF n >= 4 THEN m.w[4] ELSE @]
        wm == IF n = 5 /\ m.w[5] # Small(4096)
              THEN Warn("Fifth int of master not 0x00001000") ELSE <<>>
        h == ReadWords(c, bits, at, 2)
    IN  IF ~known THEN Raise(p, p.d, <<>>, OutOfRange)
        ELSE IF f.master
        THEN IF ~m.ok THEN Raise(p1, dm, wm, OutOfRange)
             ELSE Call([p EXCEPT !.d = dm, !.stderr = @ \o wm],
                       SetTop(p, [f EXCEPT !.phase = "tail"]), dm.rootID)
        ELSE IF ~h.ok THEN Raise(p1, [p.d EXCEPT !.cursor = h.cursor], <<>>,
                                 OutOfRange)
             ELSE [p EXCEPT !.d = [@ EXCEPT !.cursor = h.cursor],
                            !.stack = SetTop(p, [f EXCEPT !.phase = "loop",
                                                          !.nextID = h.w[1],
                                                          !.numRecords = h.w[2]])]

\* The loop condition i < int(numRecords).
InLoop(f, bits) == Lt(Small(f.i), IntOfU32(f.numRecords, bits))

\* An iteration of an internal node begins: the child id is read, the
\* cursor saved and the child walked.
descendChild(c, bits, p) ==
    LET f == Top(p)
        ch == nextUint32(c, bits, p.d.cursor)
    IN  IF ~ch.ok THEN Raise(p, p.d, <<>>, OutOfRange)
        ELSE Call([p EXCEPT !.d = [@ EXCEPT !.cursor = ch.cursor]],
                  SetTop(p, [f EXCEPT !.phase = "child",
                                      !.currentCursor = ch.cursor]),
                  ch.val)

\* The entry of an iteration: name, field code and value are read and
\* merged into d.records.  In an internal node this follows the return of
\* the child walk.
readEntry(c, bits, p) ==
    LET f == Top(p)
        start == p.d.cursor
        nl == nextUint32(c, bits, start)
        ni == IntOfU32(nl.val, bits)
        nb == nextBytes(c, bits, nl.cursor, IntAdd(ni, ni, bits))
        fb == nextBytes(c, bits, nb.cursor, Small(4))
        dt == parseData(c, bits, fb.cursor)
        failAt == IF ~nl.ok THEN start ELSE IF ~nb.ok THEN nl.cursor
                  ELSE IF ~fb.ok THEN nb.cursor ELSE dt.cursor
        name == utf16ToString(nb.b)
    IN  IF ~(nl.ok /\ nb.ok /\ fb.ok /\ dt.ok)
        THEN Raise(p, [p.d EXCEPT !.cursor = failAt], <<>>, OutOfRange)
        ELSE IF dt.fatal
        THEN [p EXCEPT !.d = [@ EXCEPT !.cursor = dt.cursor], !.pc = "exit",
                       !.stderr = Append(@, "Unrecognized data type"),
                       !.lastTag = dt.tag]
        ELSE [p EXCEPT !.d = [@ EXCEPT !.cursor = dt.cursor,
                                       !.records = merge(@, name, fb.b, dt.val)],
                       !.stack = SetTop(p, [f EXCEPT !.phase = "loop",
                                                     !.i = @ + 1]),
                       !.lastTag = dt.tag,
                       !.walk = Append(@, [nodeID |-> f.nodeID, idx |-> f.i,
                                           name |-> name, field |-> fb.b,
                                           at |-> fb.cursor.lo,
                                           val |-> dt.val])]

\* The end of the loop that forgets the next link.
descendNextSkip(p) ==
    [p EXCEPT !.stack = SetTop(p, [Top(p) EXCEPT !.phase = "tail"])]

\* After the loop: the next link, when there is one, is walked as the last
\* child.
descendNext(p) ==
    LET f == Top(p) IN Call(p, SetTop(p, [f EXCEPT !.phase = "tail"]), f.nextID)

----------------------------------------------------------------------------
(* Parse, step by step.                                                    *)

AtEnter(p) == p.pc = "parseTreeNode" /\ Top(p).phase = "enter"
AtLoop(p) == p.pc = "parseTreeNode" /\ Top(p).phase = "loop"
AtDescendChild(p, bits) ==
    AtLoop(p) /\ InLoop(Top(p), bits) /\ Top(p).nextID # Small(0)
AtReadEntry(p, bits) ==
    \/ AtLoop(p) /\ InLoop(Top(p), bits) /\ Top(p).nextID = Small(0)
    \/ p.pc = "parseTreeNode" /\ Top(p).phase = "child"
AtDescendNext(p, bits) ==
    AtLoop(p) /\ ~InLoop(Top(p), bits) /\ Top(p).nextID # Small(0)
AtReturn(p, bits) ==
    \/ AtLoop(p) /\ ~InLoop(Top(p), bits) /\ Top(p).nextID = Small(0)
    \/ p.pc = "parseTreeNode" /\ Top(p).phase = "tail"

\* The deferred function of Parse: the panic is recovered and printed, and
\* Parse returns the zero value of its result, a nil error.
recover(p) ==
    [p EXCEPT !.pc = "main", !.stack = <<>>,
              !.stderr = Append(@, "Error parsing DS_Store: " \o p.panicVal)]

\* One step of Parse.
Step(c, bits, p) ==
    CASE p.pc = "parseHeader" -> parseHeader(c, bits, p)
      [] p.pc = "parseAllocator" -> parseAllocator(c, bits, p)
      [] AtEnter(p) -> enterNode(c, bits, p)
      [] AtDescendChild(p, bits) -> descendChild(c, bits, p)
      [] AtReadEntry(p, bits) -> readEntry(c, bits, p)
      [] AtDescendNext(p, bits) -> descendNext(p)
      [] AtReturn(p, bits) -> Return(p)
      [] p.pc = "recover" -> recover(p)
      [] OTHER -> p

NewDSStore ==
    [cursor |-> Small(0), records |-> <<>>, offsets |-> <<>>,
     allocatorOffset |-> Small(0), allocatorLength |-> Small(0),
     directory |-> <<>>, masterID |-> Small(0), freelist |-> <<>>,
     rootID |-> Small(0), treeHeight |-> Small(0), numRecords |-> Small(0),
     numNodes |-> Small(0)]

Start ==
    [d |-> NewDSStore, stack |-> <<>>, pc |-> "parseHeader",
     panicVal |-> "none", stderr |-> <<>>, walk |-> <<>>, lastTag |-> <<>>]

\* Parse run to its end on a buffer: the state in which Parse has returned
\* or the process has ended.
RECURSIVE RunFrom(_, _, _)
RunFrom(c, bits, p) ==
    IF p.pc \in {"main", "exit", "crash"} THEN p
    ELSE RunFrom(c, bits, Step(c, bits, p))

Parse(c, bits) == RunFrom(c, bits, Start)

----------------------------------------------------------------------------
(* The report.  Of Record.humanReadable the handlers of the fixed-length   *)
(* blobs (BKGD, Iloc, dilc, fwi0, icvo) and the default handler are        *)
(* modelled; the generated files use no other field code.  A line of the   *)
(* report is [rec, field, text]; the line of a record's name has an empty  *)
(* field.  The rendering of raw bytes (showOne) is not modelled: the       *)
(* generated blobs carry none of the prefixes showBytes looks for.         *)

IsBytes(data) == data.kind = "bytes"
\* len(b) and cap(b) of a value asserted to []byte; the failed assertion
\* "b, _ := data.([]byte)" leaves a nil slice.
BLen(data) == IF IsBytes(data) THEN data.v.len ELSE 0
BCap(c, data) == IF IsBytes(data) THEN c.cap - data.v.off ELSE 0
\* The bytes b[lo:hi] of a blob.
BSub(c, data, lo, hi) == [k \in 1..(hi - lo) |-> ByteAt(c, data.v.off + lo + k - 1)]

\* Record.validateType for expected = "bytes": the warnings it prints.
validateType(data, lens) ==
    IF ~IsBytes(data) THEN Warn("not []byte")
    ELSE IF lens # {} /\ BLen(data) \notin lens THEN Warn("not of length")
    ELSE <<>>

Out(lines, warns, panic) == [lines |-> lines, warns |-> warns, panic |-> panic]
SliceRange == "runtime error: slice bounds out of range"
NotBytes == "interface conversion: interface {} is not []uint8"

\* The slice expressions b[lo:hi] of a handler, the largest hi being n, are
\* legal: a slice may be extended up to its capacity.
Sliceable(c, data, n) == n <= BCap(c, data)

\* case "BKGD"
handleBKGD(c, data) ==
    LET w == validateType(data, {12})
        bt == BSub(c, data, 0, 4)
    IN  IF ~Sliceable(c, data, 4) THEN Out(<<>>, w, SliceRange)
        ELSE IF bt = SubDefB THEN Out(<<"Background: Default">>, w, "none")
        ELSE IF bt = SubClrB
        THEN IF ~Sliceable(c, data, 10) THEN Out(<<>>, w, SliceRange)
             ELSE Out(<<"Background: Color">>, w, "none")
        ELSE IF bt = SubPctB THEN Out(<<"Background: Picture">>, w, "none")
        ELSE Out(<<"Background (unrecognized)">>,
                 w \o Warn("Unrecognized background type"), "none")

\* case "Iloc", "dilc", "fwi0": the value is asserted to be []byte, then
\* sliced up to the expected length n.
handleFixed(c, data, n, text) ==
    LET w == validateType(data, {n}) IN
    IF ~IsBytes(data) THEN Out(<<>>, w, NotBytes)
    ELSE IF ~Sliceable(c, data, n) THEN Out(<<>>, w, SliceRange)
    ELSE Out(text, w, "none")

\* case "icvo"
handleIcvo(c, data) ==
    LET w == validateType(data, {})
        st == BSub(c, data, 0, 4)
        head == <<"Icon view options:">>
    IN  IF ~IsBytes(data) THEN Out(<<>>, w, NotBytes)
        ELSE IF ~Sliceable(c, data, 4) THEN Out(<<>>, w, SliceRange)
        ELSE IF st = FieldIcvo
        THEN IF BLen(data) = 18
             THEN Out(head \o <<"Flags", "Size", "Keep arranged by">>, w, "none")
             ELSE Out(head \o <<"(unrecognized icvo)">>,
                      w \o Warn("icvo data not length 18"), "none")
        ELSE IF st = SubIcv4
        THEN IF BLen(data) = 26
             THEN Out(head \o <<"Size", "Keep arranged by", "Label position",
                                "Flags (partially known):", "Raw flags",
                                "Show item info", "Show icon preview">>,
                      w, "none")
             ELSE Out(head \o <<"(unrecognized icv4)">>,
                      w \o Warn("icv4 data not length 26"), "none")
        ELSE Out(head \o <<"(unrecognized)">>,
                 w \o Warn("Unrecognized icon view options type"), "none")

\* One iteration of the loop of humanReadable: the lines of one field.
fieldLines(c, field, data) ==
    IF field = FieldBKGD THEN handleBKGD(c, data)
    ELSE IF field = FieldIloc
    THEN handleFixed(c, data, 16, <<"Icon location">>)
    ELSE IF field = FieldDilc
    THEN handleFixed(c, data, 32, <<"Icon location on desktop">>)
    ELSE IF field = FieldFwi0
    THEN handleFixed(c, data, 16,
                     <<"Finder window information:", "Window rectangle",
                       "View style (might be overtaken)", "(raw)">>)
    ELSE IF field = FieldIcvo THEN handleIcvo(c, data)
    ELSE Out(<<"(unrecognized)">>, <<>>, "none")

\* Record.humanReadable, the fields taken in the given order (Go ranges
\* over a map in an unspecified order).  A panic ends it without lines.
RECURSIVE humanReadable(_, _, _)
humanReadable(c, rec, order) ==
    IF order = <<>> THEN Out(<<>>, <<>>, "none")
    ELSE LET f == Head(order)
             h == fieldLines(c, f, rec.fields[f])
             rest == humanReadable(c, rec, Tail(order))
         IN  IF h.panic # "none" THEN Out(<<>>, h.warns, h.panic)
             ELSE IF rest.panic # "none"
             THEN Out(<<>>, h.warns \o rest.warns, rest.panic)
             ELSE Out([k \in 1..Len(h.lines) |->
                          [rec |-> rec.name, field |-> f, text |-> h.lines[k]]]
                      \o rest.lines, h.warns \o rest.warns, "none")

Orders(S) ==
    {q \in [1..Cardinality(S) -> S] : \A a, b \in DOMAIN q : q[a] = q[b] => a = b}

----------------------------------------------------------------------------
(* The generated input files.  A file description is                       *)
(*   [align, magic, allocRel, repeat : the header words                    *)
(*    keys   : the directory, a sequence of <<name, block id>>             *)
(*    offs   : the offset table, one word per block id                     *)
(*    master : the five words of the master block                          *)
(*    nodes  : absolute offset -> node [next, entries], an entry being     *)
(*             [child, name, field, data]                                  *)
(*    cut    : bytes missing from the end of the file                      *)
(*    pad    : zero bytes that follow the last block                       *)
(*    slack  : capacity of the content slice beyond its length             *)
(*    bits   : the width of int]                                           *)
(* and Image lays it out as the bytes of section 6 of the format.          *)

Zeros(n) == [k \in 1..n |-> 0]
Enc32(w) == <<w.hi \div 256, w.hi % 256, w.lo \div 256, w.lo % 256>>
Enc16(u) == <<u \div 256, u % 256>>

RECURSIVE Flat(_)
Flat(ss) == IF ss = <<>> THEN <<>> ELSE Head(ss) \o Flat(Tail(ss))

EntryBytes(e, internal) ==
    (IF internal THEN Enc32(e.child) ELSE <<>>)
    \o Enc32(Small(Len(e.name)))
    \o Flat([k \in 1..Len(e.name) |-> Enc16(e.name[k])])
    \o e.field \o e.data

NodeBytes(n) ==
    Enc32(n.next) \o Enc32(Small(Len(n.entries)))
    \o Flat([k \in 1..Len(n.entries) |->
                EntryBytes(n.entries[k], n.next # Small(0))])

KeyBytes(k) == <<Len(k[1])>> \o k[1] \o Enc32(k[2])

\* Absolute offsets of the layout: the allocator, its directory 0x408
\* further, the master block, two node blocks before the directory and one
\* block, the last of the file, after the free lists.
AllocAt == 4 + 32
DirAt == AllocAt + 1032
MasterAt == 4 + 64
Node2At == 4 + 128
Node3At == 4 + 256
Node4At == 4 + 1216

\* The bytes bs laid at offset at, after the bytes so far.
Lay(sofar, at, bs) == sofar \o Zeros(at - Len(sofar)) \o bs

Layout(fd) ==
    Lay(Lay(Lay(Lay(Lay(Lay(
        Enc32(fd.align) \o Enc32(fd.magic) \o Enc32(fd.allocRel)
            \o Enc32(Small(2048)) \o Enc32(fd.repeat),
        AllocAt, Enc32(Small(Len(fd.offs))) \o Enc32(Small(0))
                 \o Flat([k \in 1..Len(fd.offs) |-> Enc32(fd.offs[k])])),
        MasterAt, Flat([k \in 1..5 |-> Enc32(fd.master[k])])),
        Node2At, NodeBytes(fd.nodes[Node2At])),
        Node3At, NodeBytes(fd.nodes[Node3At])),
        DirAt, Enc32(Small(Len(fd.keys)))
               \o Flat([k \in 1..Len(fd.keys) |-> KeyBytes(fd.keys[k])])),
        Node4At, NodeBytes(fd.nodes[Node4At]))

FileLen(fd) == Node4At + Len(NodeBytes(fd.nodes[Node4At])) + fd.pad - fd.cut

Sparse(img, n) ==
    [i \in {j \in 0..(n - 1) : img[j + 1] # 0} |-> img[i + 1]]

Image(fd) ==
    LET n == FileLen(fd) IN
    [bytes |-> Sparse(Layout(fd), IF n < Node4At THEN n ELSE n - fd.pad),
     len |-> n, cap |-> n + fd.slack]

\* A block address word: the offset relative to byte 4, a multiple of 32,
\* and the size class in the low five bits.
Addr(rel, class) == Small(rel + class)

DBool(b) == TagBool \o <<b>>
DLong(w) == TagLong \o Enc32(w)
DShor(w) == TagShor \o Enc32(w)
DComp(bs) == TagComp \o bs
DDutc(bs) == TagDutc \o bs
DType(bs) == TagType \o bs
\* A blob or a text whose length word is w, followed by the bytes bs.
DBlob(w, bs) == TagBlob \o Enc32(w) \o bs
DUstr(w, bs) == TagUstr \o Enc32(w) \o bs
DUnknown == <<120, 120, 120, 120>>

Blob(bs) == DBlob(Small(Len(bs)), bs)

NameA == <<65>>
NameB == <<66>>
NameC == <<67>>
\* Two lone surrogates: different code units, the same text once decoded.
NameHigh == <<55296>>
NameLow == <<56320>>
\* Two field codes humanReadable does not know.
FieldOther == <<122, 122, 122, 122>>
FieldExtra == <<121, 121, 121, 121>>

Entry(child, name, field, data) ==
    [child |-> Small(child), name |-> name, field |-> field, data |-> data]
Node(next, entries) == [next |-> Small(next), entries |-> entries]

\* The file the families below vary: an internal root (block 2) with one
\* entry, whose child is the leaf 3 and whose next link is the leaf 4.
BaseFile ==
    [align |-> Small(1), magic |-> Magic, allocRel |-> Small(32),
     repeat |-> Small(32),
     keys |-> <<<<DSDB, Small(1)>>>>,
     offs |-> <<Addr(32, 11), Addr(64, 5), Addr(128, 7), Addr(256, 7),
                Addr(1216, 7)>>,
     master |-> <<Small(2), Small(1), Small(4), Small(3), Small(4096)>>,
     nodes |-> (Node2At :> Node(4, <<Entry(3, NameB, FieldExtra, DBool(1))>>)
             @@ Node3At :> Node(0, <<Entry(0, NameA, FieldOther, DLong(Small(5)))>>)
             @@ Node4At :> Node(0, <<Entry(0, NameC, FieldOther, DBool(0)),
                                     Entry(0, NameA, FieldExtra, DBool(1))>>)),
     cut |-> 0, pad |-> 0, slack |-> 1, bits |-> 64]

Builds == {32, 64}

\* Header words and directories.
KeyChoices ==
    {<<<<DSDB, Small(1)>>>>, <<>>, <<<<FieldOther, Small(1)>>>>,
     <<<<FieldOther, Small(2)>>, <<DSDB, Small(1)>>>>}

FilesHeader ==
    {[BaseFile EXCEPT !.align = a, !.magic = m, !.repeat = r, !.keys = k,
                      !.bits = b] :
        a \in {Small(1), Small(0)}, m \in {Magic, Small(0)},
        r \in {Small(32), Small(33)}, k \in KeyChoices, b \in Builds}

\* Files that end inside the header, the offset table, the directory or
\* the free lists.
FilesShort ==
    {[BaseFile EXCEPT !.cut = FileLen(BaseFile) - n, !.slack = s, !.keys = k] :
        n \in {3, 18, 50, 1070, 1074, 1100}, s \in 0..MaxSlack,
        k \in {<<<<DSDB, Small(1)>>>>, <<>>}}

\* Files whose last block is cut short.
FilesCut ==
    {[BaseFile EXCEPT !.cut = n, !.slack = s, !.bits = b] :
        n \in 0..MaxCut, s \in 0..MaxSlack, b \in Builds}

\* Tree shapes: the root has any next link (none, a leaf, itself, an id
\* outside the offset table) and up to MaxEntries entries.
RootEntries ==
    {Entry(ch, nf[1], nf[2], DBool(1)) :
        ch \in {3, 4},
        nf \in {<<NameA, FieldExtra>>, <<NameA, FieldOther>>, <<NameB, FieldExtra>>}}

RECURSIVE SeqsUpTo(_, _)
SeqsUpTo(S, n) ==
    IF n = 0 THEN {<<>>}
    ELSE LET shorter == SeqsUpTo(S, n - 1) IN
         shorter \cup {Append(q, x) : q \in {r \in shorter : Len(r) = n - 1},
                                      x \in S}

FilesTree ==
    {[BaseFile EXCEPT !.nodes = [@ EXCEPT ![Node2At] = Node(nx, es)]] :
        nx \in {0, 3, 4, 2, 9}, es \in SeqsUpTo(RootEntries, MaxEntries)}

\* Names that differ in their code units only.
FilesNames ==
    {[BaseFile EXCEPT !.nodes = [@ EXCEPT
          ![Node3At] = Node(0, <<Entry(0, n1, FieldExtra, DBool(0)),
                                 Entry(0, n2, f2, DBool(1))>>)]] :
        n1 \in {NameHigh, NameA}, n2 \in {NameLow, NameHigh, NameA},
        f2 \in {FieldExtra, FieldOther}}

\* Values: the root is the leaf 4, the last block of the file, with one
\* entry.
PlainData ==
    {DBool(0), DBool(1), DBool(2),
     DLong(Small(5)), DLong([hi |-> 32767, lo |-> 65535]),
     DLong([hi |-> 32768, lo |-> 0]), DLong([hi |-> 65535, lo |-> 65535]),
     DShor([hi |-> 65535, lo |-> 65535]), DShor(Small(5)),
     DComp(Zeros(8)), DDutc(Zeros(7) \o <<1>>), DType(TagBool),
     DUstr(Small(1), <<0, 65>>), DUstr(Small(0), <<>>), DUnknown,
     DUstr([hi |-> 32768, lo |-> 1], <<0, 65>>),
     DUstr([hi |-> 32768, lo |-> 0], <<>>),
     DBlob([hi |-> 65535, lo |-> 65535], <<>>),
     DBlob([hi |-> 32768, lo |-> 2], <<1, 2>>)}

BlobData ==
    {Blob(Zeros(n)) : n \in {0, 2, 11, 12, 16, 18, 32}}
    \cup {Blob(SubDefB \o Zeros(8)), Blob(SubDefB \o Zeros(7)), Blob(SubDefB),
          Blob(SubClrB \o Zeros(8)), Blob(SubClrB \o Zeros(3)),
          Blob(SubPctB \o Zeros(8)),
          Blob(FieldIcvo \o Zeros(14)), Blob(FieldIcvo \o Zeros(3)),
          Blob(SubIcv4 \o Zeros(22)), Blob(SubIcv4)}

ValueFields ==
    {FieldBKGD, FieldIloc, FieldDilc, FieldFwi0, FieldIcvo, FieldOther}

FilesValue ==
    {[BaseFile EXCEPT !.master = [@ EXCEPT ![1] = Small(4)],
                      !.nodes = [@ EXCEPT ![Node4At] =
                                     Node(0, <<Entry(0, NameA, fv[1], fv[2])>>)],
                      !.pad = pd, !.slack = s, !.bits = b] :
        fv \in (ValueFields \X BlobData) \cup ({FieldIloc, FieldOther} \X PlainData),
        pd \in {0, 40}, s \in 0..MaxSlack, b \in Builds}

\* An entry with an unrecognized type tag: the first entry walked, the
\* root's, or the last.
FilesUnknown ==
    {[BaseFile EXCEPT !.nodes = [@ EXCEPT ![at] = [@ EXCEPT
          !.entries = [@ EXCEPT ![Len(@)] = [@ EXCEPT !.data = DUnknown]]]],
                      !.bits = b] :
        at \in {Node2At, Node3At, Node4At}, b \in Builds}

\* Block addresses: the word of block 3 is any of these.
AddrWords ==
    {Addr(256, cl) : cl \in {0, 7, 31}}
    \cup {Addr(128, 7), Addr(1216, 0), Addr(4096, 7), [hi |-> 1, lo |-> 256 + 7],
          [hi |-> 32768, lo |-> 256 + 7], [hi |-> 65535, lo |-> 65535]}

FilesAddr ==
    {[BaseFile EXCEPT !.offs = [@ EXCEPT ![4] = w], !.bits = b] :
        w \in AddrWords, b \in Builds}

Files ==
    FilesHeader \cup FilesShort \cup FilesCut \cup FilesTree \cup FilesNames
    \cup FilesValue \cup FilesUnknown \cup FilesAddr

----------------------------------------------------------------------------
(* The process: main calls Parse, then prints the records.                 *)

Cur ==
    [d |-> d, stack |-> stack, pc |-> pc, panicVal |-> panicVal,
     stderr |-> stderr, walk |-> walk, lastTag |-> lastTag]

\* The step p of Parse is taken; log.Fatalf ends the process with status
\* 1, a fatal error of the runtime with status 2.
Apply(p) ==
    /\ d' = p.d
    /\ stack' = p.stack
    /\ pc' = p.pc
    /\ panicVal' = p.panicVal
    /\ stderr' = p.stderr
    /\ walk' = p.walk
    /\ lastTag' = p.lastTag
    /\ exitCode' = IF p.pc = "exit" THEN 1 ELSE IF p.pc = "crash" THEN 2
                   ELSE exitCode
    /\ UNCHANGED <<content, intBits, parseErr, stdout, reportIdx, file>>

Init ==
    /\ file \in Files
    /\ content = Image(file)
    /\ intBits = file.bits
    /\ d = NewDSStore
    /\ stack = <<>>
    /\ pc = "parseHeader"
    /\ panicVal = "none"
    /\ parseErr = "unset"
    /\ stderr = <<>>
    /\ stdout = <<>>
    /\ exitCode = -1
    /\ reportIdx = 0
    /\ walk = <<>>
    /\ lastTag = <<>>

ParseHeader == pc = "parseHeader" /\ Apply(parseHeader(content, intBits, Cur))

ParseAllocator ==
    pc = "parseAllocator" /\ Apply(parseAllocator(content, intBits, Cur))

EnterMaster ==
    AtEnter(Cur) /\ Top(Cur).master /\ Apply(enterNode(content, intBits, Cur))

EnterNode ==
    AtEnter(Cur) /\ ~Top(Cur).master /\ Apply(enterNode(content, intBits, Cur))

DescendChild ==
    AtDescendChild(Cur, intBits) /\ Apply(descendChild(content, intBits, Cur))

ReadEntry ==
    AtReadEntry(Cur, intBits) /\ Apply(readEntry(content, intBits, Cur))

DescendNext == AtDescendNext(Cur, intBits) /\ Apply(descendNext(Cur))

ReturnNode == AtReturn(Cur, intBits) /\ Apply(Return(Cur))

\* The deferred recover of Parse; Parse then returns nil.
Recover ==
    /\ pc = "recover"
    /\ LET p == recover(Cur) IN
       /\ d' = p.d /\ stack' = p.stack /\ pc' = p.pc /\ stderr' = p.stderr
    /\ UNCHANGED <<content, intBits, panicVal, parseErr, stdout, exitCode,
                   reportIdx, walk, lastTag, file>>

\* main: "if err := ds.Parse(); err != nil { log.Fatal(err) }"
MainCheck ==
    /\ pc = "main"
    /\ parseErr' = "nil"
    /\ IF parseErr' # "nil"
       THEN pc' = "exit" /\ exitCode' = 1 /\ UNCHANGED reportIdx
       ELSE pc' = "report" /\ reportIdx' = 1 /\ UNCHANGED exitCode
    /\ UNCHANGED <<content, intBits, d, stack, panicVal, stderr, stdout,
                   walk, lastTag, file>>

\* One iteration of main's loop over the records: the name is printed,
\* then the lines humanReadable returns.  A panic of humanReadable is not
\* recovered: it ends the process with status 2.
ReportRecord ==
    /\ pc = "report"
    /\ reportIdx <= Len(d.records)
    /\ LET rec == d.records[reportIdx] IN
       \E order \in Orders(DOMAIN rec.fields) :
          LET h == humanReadable(content, rec, order)
              nameLine == [rec |-> rec.name, field |-> <<>>, text |-> ""]
          IN  /\ stdout' = Append(stdout, nameLine) \o h.lines
              /\ IF h.panic # "none"
                 THEN /\ pc' = "crash"
                      /\ exitCode' = 2
                      /\ panicVal' = h.panic
                      /\ stderr' = Append(stderr \o h.warns, "panic: " \o h.panic)
                      /\ UNCHANGED reportIdx
                 ELSE /\ reportIdx' = reportIdx + 1
                      /\ stderr' = stderr \o h.warns
                      /\ UNCHANGED <<pc, exitCode, panicVal>>
    /\ UNCHANGED <<content, intBits, d, stack, parseErr, walk, lastTag, file>>

\* main returns: the process ends with status 0.
MainReturn ==
    /\ pc = "report"
    /\ reportIdx > Len(d.records)
    /\ pc' = "done"
    /\ exitCode' = 0
    /\ UNCHANGED <<content, intBits, d, stack, panicVal, parseErr, stderr,
                   stdout, reportIdx, walk, lastTag, file>>

Next ==
    \/ ParseHeader
    \/ ParseAllocator
    \/ EnterMaster
    \/ EnterNode
    \/ DescendChild
    \/ ReadEntry
    \/ DescendNext
    \/ ReturnNode
    \/ Recover
    \/ MainCheck
    \/ ReportRecord
    \/ MainReturn

Spec == Init /\ [][Next]_vars

----------------------------------------------------------------------------
(* The claims.                                                             *)

\* Parse has returned or the process has ended inside it.
ParseOver == pc \in {"main", "report", "done", "exit", "crash"}
\* The panics Parse can raise (those of the report differ).
ParsePanics == {NoDSDB, OutOfRange}

(* C1: when the allocator directory holds no "DSDB" entry the decode fails *)
(* as a whole: parseTreeNode is never entered (no frame, no entry walked), *)
(* the record store stays empty, the report holds no line, and Parse ends  *)
(* by a panic.                                                             *)
C1_MissingDSDBFailsDecode ==
    DSDB \notin DOMAIN d.directory =>
        /\ stack = <<>>
        /\ walk = <<>>
        /\ pc # "parseTreeNode"
        /\ d.records = <<>>
        /\ stdout = <<>>
        /\ (ParseOver => panicVal \in ParsePanics)

\* A file whose directory holds another key only has been decoded, and the
\* process has ended.
C1_Witness ==
    /\ pc = "done"
    /\ panicVal = NoDSDB
    /\ DOMAIN d.directory = {FieldOther}

(* C2: a fatal failure of Parse reaches its caller as an error: once Parse *)
(* has returned after a missing "DSDB" key or a read beyond the buffer,    *)
(* the error main holds is not nil.                                        *)
C2_ParseReturnsError ==
    (parseErr # "unset" /\ panicVal \in ParsePanics) => parseErr # "nil"

(* C3: on a fatal failure no partial record output is printed: after a    *)
(* panic of Parse the report holds no record name and no field line.       *)
C3_NoPartialOutput ==
    panicVal \in ParsePanics => stdout = <<>>


\* The buffer c with the bytes bs written at offset at (within its length).
Written(c, at, bs) ==
    LET rng == {i \in at..(at + Len(bs) - 1) : i < c.len}
        val(i) == IF i \in rng THEN bs[i - at + 1] ELSE ByteAt(c, i)
    IN  [c EXCEPT !.bytes = [i \in {j \in (DOMAIN c.bytes) \cup rng : val(j) # 0}
                                |-> val(i)]]

\* The same buffer with a well-formed header: alignment 0x00000001, magic
\* 0x42756431, and the repeated offset equal to the first.
Canonical(c) ==
    Written(Written(c, 0, Enc32(Small(1)) \o Enc32(Magic)),
            16, [k \in 1..4 |-> ByteAt(c, 8 + k - 1)])

HeaderWarnings ==
    {Warn("Alignment int not 0x00000001")[1],
     Warn("Magic bytes not 0x42756431 (Bud1)")[1],
     Warn("Allocator offsets unequal")[1]}
IsHeaderWarning(m) == m \in HeaderWarnings

(* C4: header mismatches are warnings, not aborts: whatever the alignment  *)
(* word, the magic word and the repeated allocator offset are, Parse ends  *)
(* as it ends on the same buffer with a well-formed header: with the same  *)
(* records, the same outcome, and the same diagnostics but for the header  *)
(* warnings.                                                               *)
C4_HeaderMismatchOnlyWarns ==
    (pc \in {"main", "exit"} \/ (pc = "crash" /\ panicVal = "stack overflow")) =>
        LET ref == Parse(Canonical(content), intBits) IN
        /\ d.records = ref.d.records
        /\ pc = ref.pc
        /\ panicVal = ref.panicVal
        /\ SelectSeq(stderr, LAMBDA m : ~IsHeaderWarning(m))
              = SelectSeq(ref.stderr, LAMBDA m : ~IsHeaderWarning(m))

\* A file with all three header mismatches has been decoded and reported.
C4_Witness ==
    /\ pc = "done"
    /\ panicVal = "none"
    /\ d.records # <<>>
    /\ \A m \in HeaderWarnings : \E k \in DOMAIN stderr : stderr[k] = m

\* The node a block id names in a file description: the node laid out
\* where the offset table sends the id, if any.
RefNode(fd, id) ==
    IF id.hi = 0 /\ id.lo < Len(fd.offs)
    THEN LET w == fd.offs[id.lo + 1]
             at == 4 + (w.lo - (w.lo % 32))
         IN  IF w.hi = 0 /\ at \in DOMAIN fd.nodes THEN {fd.nodes[at]} ELSE {}
    ELSE {}

\* The in-order traversal of the tree below block id, as <<id, index>> of
\* the entries: in an internal node each entry after the subtree of its
\* child, and the subtree of the next link last.  A block that cannot be
\* read, or lies deeper than depth calls, contributes nothing.
RECURSIVE InOrder(_, _, _)
InOrder(fd, id, depth) ==
    IF depth = 0 \/ RefNode(fd, id) = {} THEN <<>>
    ELSE LET n == CHOOSE x \in RefNode(fd, id) : TRUE IN
         IF n.next = Small(0)
         THEN [k \in 1..Len(n.entries) |-> <<id, k - 1>>]
         ELSE Flat([k \in 1..Len(n.entries) |->
                       Append(InOrder(fd, n.entries[k].child, depth - 1),
                              <<id, k - 1>>)])
              \o InOrder(fd, n.next, depth - 1)

WalkIds == [k \in 1..Len(walk) |-> <<walk[k].nodeID, walk[k].idx>>]
IsPrefix(a, b) == Len(a) <= Len(b) /\ a = SubSeq(b, 1, Len(a))

(* C5: the walk is an in-order traversal: at every moment the entries      *)
(* yielded so far are a prefix of the in-order traversal of the tree below *)
(* the root (child subtree before its entry, entries in stored order, the  *)
(* next link's subtree last, no child under a leaf), and a walk that ends  *)
(* without a failure has yielded all of it.                                *)
C5_InOrderWalk ==
    LET ref == InOrder(file, file.master[1], MaxDepth - 1) IN
    /\ IsPrefix(WalkIds, ref)
    /\ (pc \in {"main", "report", "done"} /\ panicVal = "none" => WalkIds = ref)

\* A walk that went through an internal node with two entries and a next
\* link has ended.
C5_Witness ==
    /\ pc = "done"
    /\ panicVal = "none"
    /\ \E k \in 1..Len(walk) : walk[k].idx = 1 /\ walk[k].nodeID = Small(2)
    /\ Len(walk) >= 5

\* What one merge does to the record store.
Merged(old, new, e) ==
    LET hits == {k \in 1..Len(old) : old[k].name = e.name} IN
    IF hits = {}
    THEN new = Append(old, [name |-> e.name, fields |-> (e.field :> e.val)])
    ELSE /\ Len(new) = Len(old)
         /\ \E k \in hits :
              /\ \A j \in 1..Len(old) : j # k => new[j] = old[j]
              /\ new[k].name = old[k].name
              /\ DOMAIN new[k].fields = DOMAIN old[k].fields \cup {e.field}
              /\ new[k].fields[e.field] = e.val
              /\ \A f \in DOMAIN old[k].fields :
                    f # e.field => new[k].fields[f] = old[k].fields[f]

NoDuplicateNames ==
    \A j, k \in 1..Len(d.records) :
        d.records[j].name = d.records[k].name => j = k

(* C6: the record store holds at most one record per name: an entry whose  *)
(* name is already there adds its field to that record, whose other fields *)
(* and whose place in the list stay, and an entry with a new name appends  *)
(* exactly one record; nothing else changes the store.                     *)
C6_OneRecordPerName ==
    /\ []NoDuplicateNames
    /\ [][IF walk' # walk
          THEN Merged(d.records, d'.records, walk'[Len(walk')])
          ELSE d'.records = d.records]_vars

\* A record has taken a second field from a later entry of the same name.
C6_Witness ==
    /\ \E k \in 1..Len(d.records) : Cardinality(DOMAIN d.records[k].fields) >= 2
    /\ Len(d.records) >= 2
    /\ Len(walk) > Len(d.records)


\* The type tag of the k-th entry walked and the four bytes after it, as
\* they stand in the file.
TagOf(k) == [j \in 1..4 |-> ByteAt(content, walk[k].at + j - 1)]
WordOf(k) ==
    LET at == walk[k].at + 4 IN
    [hi |-> ByteAt(content, at) * 256 + ByteAt(content, at + 1),
     lo |-> ByteAt(content, at + 2) * 256 + ByteAt(content, at + 3)]
\* A 32-bit word read as a two's complement number.
Signed32(w) == IF w.hi >= 32768 THEN [hi |-> w.hi - 65536, lo |-> w.lo] ELSE w

(* C7: a value of type shor or long is its 4-byte big-endian word read as  *)
(* a signed 32-bit integer: w - 2^32 for w >= 0x80000000, else w.          *)
C7_ShorLongSigned32 ==
    \A k \in 1..Len(walk) :
        TagOf(k) \in {TagShor, TagLong} =>
            walk[k].val = [kind |-> "int", v |-> Signed32(WordOf(k))]

\* The field codes whose handler expects a fixed byte length.
LengthChecked == {FieldBKGD, FieldIloc, FieldDilc, FieldFwi0, FieldIcvo}
\* The k-th record holds nothing but blobs under length-checked codes.
OnlyCheckedBlobs(k) ==
    \A f \in DOMAIN d.records[k].fields :
        f \in LengthChecked /\ IsBytes(d.records[k].fields[f])

(* C8: length errors of a field never abort: a record whose fields are     *)
(* blobs, of any length, under the length-checked codes BKGD, Iloc, dilc,  *)
(* fwi0 and icvo is rendered with a line for each of its fields, and the   *)
(* report goes on to the end.                                              *)
C8_LengthErrorsNeverAbort ==
    \A k \in 1..Len(d.records) :
        OnlyCheckedBlobs(k) =>
            /\ ~(pc = "crash" /\ reportIdx = k)
            /\ (pc \in {"report", "done"} /\ reportIdx > k =>
                  \A f \in DOMAIN d.records[k].fields :
                     \E n \in 1..Len(stdout) :
                        stdout[n].rec = d.records[k].name /\ stdout[n].field = f)

UnknownTagRead == lastTag # <<>> /\ lastTag \notin KnownTags

(* C9: an entry with a type tag other than bool, shor, long, comp, dutc,   *)
(* type, blob and ustr ends the decode of the file: the process exits with *)
(* status 1 at that entry, nothing is ever printed, not even the records   *)
(* merged before it, and nothing happens after it.                         *)
C9_UnknownTagAborts ==
    /\ [](UnknownTagRead =>
            /\ pc = "exit"
            /\ exitCode = 1
            /\ stdout = <<>>
            /\ parseErr = "unset")
    /\ [][~UnknownTagRead]_vars

\* The process has ended at an unknown tag after records were merged.
C9_Witness ==
    /\ UnknownTagRead
    /\ pc = "exit"
    /\ exitCode = 1
    /\ Len(d.records) >= 2

\* 4 + (w with its low five bits cleared), as a number.
BlockOffset(w) == Norm(w.hi, (w.lo - (w.lo % 32)) + 4)

(* C10: for every word w of the offset table, parseTreeNode sets the       *)
(* cursor to 4 + (w with its low five bits cleared), whatever the size     *)
(* class in the low five bits.                                             *)
C10_BlockAddress ==
    [][(AtEnter(Cur) /\ Top(Cur).nodeID.hi = 0
          /\ Top(Cur).nodeID.lo < Len(d.offsets)) =>
        stack'[Len(stack)].start
            = BlockOffset(d.offsets[Top(Cur).nodeID.lo + 1])]_vars


\* Where block id lies in the file, by the offset table of the description.
RefBase(fd, id) ==
    LET w == fd.offs[id.lo + 1] IN 4 + (w.lo - (w.lo % 32))

\* The offset right after the child-id word of entry i (from 0) of the
\* internal node in block id: past the two words of the node, the entries
\* before i and the child id itself.
AfterChildId(fd, id, i) ==
    LET n == CHOOSE x \in RefNode(fd, id) : TRUE IN
    RefBase(fd, id) + 8
        + Len(Flat([j \in 1..i |-> EntryBytes(n.entries[j], TRUE)])) + 4

\* The k-th entry walked, as the file description has it.
RefEntry(k) ==
    (CHOOSE x \in RefNode(file, walk[k].nodeID) : TRUE).entries[walk[k].idx + 1]

ChildReturned ==
    pc = "parseTreeNode" /\ stack # <<>> /\ Top(Cur).phase = "child"

(* C11: the cursor is saved and restored around the walk of a child: when  *)
(* the walk of a child block has returned, the cursor stands right after   *)
(* that child-id word in the parent's block, whatever the child subtree    *)
(* read, and the entry the parent reads next is the one that follows the   *)
(* child id: its name length is read there, its type tag after its name    *)
(* and its field code.                                                     *)
C11_CursorRestored ==
    /\ ChildReturned =>
          /\ RefNode(file, Top(Cur).nodeID) # {}
          /\ d.cursor = Small(AfterChildId(file, Top(Cur).nodeID, Top(Cur).i))
    /\ \A k \in 1..Len(walk) :
          LET id == walk[k].nodeID IN
          (RefNode(file, id) # {}
             /\ (CHOOSE x \in RefNode(file, id) : TRUE).next # Small(0)) =>
              /\ walk[k].field = RefEntry(k).field
              /\ walk[k].at = AfterChildId(file, id, walk[k].idx) + 4
                                + 2 * Len(RefEntry(k).name) + 4

\* The walk of the child before the second entry of a node has returned,
\* after entries were read in another block.
C11_Witness ==
    /\ ChildReturned
    /\ Top(Cur).i = 1
    /\ walk # <<>>
    /\ walk[Len(walk)].nodeID # Top(Cur).nodeID
    /\ \E k \in 1..Len(walk) : walk[k].nodeID = Top(Cur).nodeID


\* The bytes a value takes after its type tag, by its tag and the word
\* that follows the tag: a number, not reduced to any width.
EncodedSize(tag, w) ==
    IF tag = TagBool THEN Small(1)
    ELSE IF tag \in {TagShor, TagLong, TagType} THEN Small(4)
    ELSE IF tag \in {TagComp, TagDutc} THEN Small(8)
    ELSE IF tag = TagBlob THEN Norm(w.hi, w.lo + 4)
    ELSE Norm(2 * w.hi, 2 * w.lo + 4)

(* C12: parseData consumes exactly the encoded size of the value: an entry *)
(* is yielded only with the cursor advanced, past the 4-byte type tag, by  *)
(* 1 for bool, 4 for shor, long and type, 8 for comp and dutc, 4 + L for a *)
(* blob of length L and 4 + 2*C for a ustr of C characters, for every L    *)
(* and C of 32 bits; a value that does not fit in the buffer yields no     *)
(* entry.                                                                  *)
C12_ConsumesEncodedSize ==
    [][walk' # walk =>
        LET k == Len(walk')
            at == walk'[k].at
            tag == [j \in 1..4 |-> ByteAt(content, at + j - 1)]
            w == [hi |-> ByteAt(content, at + 4) * 256 + ByteAt(content, at + 5),
                  lo |-> ByteAt(content, at + 6) * 256 + ByteAt(content, at + 7)]
            size == EncodedSize(tag, w)
        IN  d'.cursor = Norm(size.hi, size.lo + at + 4)]_vars


StackExhausted == pc = "crash" /\ panicVal = "stack overflow"

(* C13: the tree walk ends on every input: whatever the offset table and   *)
(* the nodes hold, also when a child id or a next link names the node      *)
(* itself or one of its ancestors, and whatever tree height the master     *)
(* block declares, the recursion of parseTreeNode stays bounded and Parse  *)
(* returns; the walk never runs until the stack is exhausted.              *)
C13_WalkTerminates == ~StackExhausted

====
